---- MODULE Spec2Model ----
(***************************************************************************)
(* Model of teapot-cli: the remote client's authenticated request          *)
(* (core/api.py), the element synchronizer and the per-element installer   *)
(* (core/element.py, core/system.py) and the batch install commands        *)
(* (commands/alias.py, commands/package.py).                               *)
(*                                                                         *)
(* Modelling conventions.                                                  *)
(*  - An uncaught Python exception ends the operation with outcome "raise" *)
(*    (and, inside a command, ends the process: pc = "crashed").           *)
(*  - Names bind as the call sites evidently intend: the per-type store    *)
(*    attribute of the configuration is "the store of that element type",  *)
(*    `Element` is the element record with .name and .status, and          *)
(*    arguments reach the parameters they are written for.  Value-level    *)
(*    behaviour (which exception classes a handler catches, what a         *)
(*    function returns, which keys are overwritten) is modelled as written.*)
(*  - The remote service, the network and the file system are the          *)
(*    environment: their answers are drawn from small named sets.          *)
(***************************************************************************)
EXTENDS Integers, Sequences, FiniteSets, TLC

VARIABLES
    auth,         \* config.auth: [nonce, expired, token]
    apiPc,        \* position inside one APIClient request
    apiPrivacy,   \* endpoint_privacy of the request in progress
    refreshCount, \* calls of _refresh_nonce that reached the nonce endpoint or returned, this request
    sendCount,    \* times the request itself was sent, this request
    sentNonce,    \* what nonce the request carried: "none", "fresh" or "stale"
    refreshRet,   \* what _refresh_nonce returned or raised in this request ("none": not called)
    apiResult     \* how the request ended: "none", "data", "APIError", "RequestError", "KeyError"

VARIABLES
    sys,          \* the machine and the invocation: [etype, shell, pm, skipInstall]
    store,        \* config.<type>: the local element store, records in insertion order
    disk,         \* the store as last written by save_config
    shellFile,    \* the shell config file: a sequence of lines, each a sequence of tokens
    pc,           \* position of the running command: idle, loop, done, exit1, crashed
    names,        \* the batch: the names the install command loops over
    idx,          \* install calls of the batch that have returned
    successCount, \* success_count of the install command
    reloads,      \* calls of restart_terminal in this invocation
    exitCode,     \* 0: the command returned normally, 1: typer.Exit(1), -1: not finished
    selResult,    \* last value of get_elements_for_install: [ret, names]
    added,        \* what add_in_system gave the install command ("none": not called)
    last          \* the last call of TeapotElement.install: what it saw and did

VARIABLES
    fnCall,       \* the function applied and its arguments: [fn, ...]
    fnResult      \* what the call returned: [done, value]

apiVars == <<apiPc, apiPrivacy, refreshCount, sendCount, sentNonce, refreshRet, apiResult>>

elemVars == <<sys, store, disk, shellFile, pc, names, idx, successCount,
              reloads, exitCode, selResult, added, last>>

\* A function applied on its own: the call and what it returned.
fnVars == <<fnCall, fnResult>>

NoFn == [fn |-> "none"]
NotReturned == [done |-> FALSE]
Returned(value) == [done |-> TRUE, value |-> value]

vars == <<auth, apiVars, elemVars, fnVars>>

(***************************************************************************)
(* core/api.py                                                             *)
(***************************************************************************)

\* What the nonce endpoint can answer to _refresh_nonce.
RefreshKinds == {"ok", "transport", "errstatus", "unsuccessful", "incomplete"}

\* What the service can answer to the request itself.
ResponseKinds == {"ok_nonce", "ok_nononce", "errstatus", "transport", "badjson"}

Privacies == {"public", "logged_in"}

AuthStates == [nonce : {"none", "some"}, expired : BOOLEAN, token : BOOLEAN]

\* _is_nonce_expired: no expiration, an unparsable one, or one in the past.
IsNonceExpired(a) == a.expired

\* _ensure_valid_nonce refreshes iff the nonce is missing or expired.
NeedsRefresh(a) == a.nonce = "none" \/ IsNonceExpired(a)

\* _refresh_nonce: [ret, auth, called] for the answer `kind` of the nonce endpoint.
\* ret is "true"/"false", or the exception class that leaves the function.
RefreshNonce(a, kind) ==
    IF ~a.token THEN [ret |-> "false", auth |-> a, called |-> FALSE]
    ELSE CASE kind = "transport"    -> [ret |-> "RequestError", auth |-> a, called |-> TRUE]
           [] kind = "errstatus"    -> [ret |-> "false", auth |-> a, called |-> TRUE]
           [] kind = "unsuccessful" -> [ret |-> "false", auth |-> a, called |-> TRUE]
           [] kind = "incomplete"   -> [ret |-> "KeyError", auth |-> a, called |-> TRUE]
           [] OTHER                 -> [ret |-> "true",
                                        auth |-> [a EXCEPT !.nonce = "some", !.expired = FALSE],
                                        called |-> TRUE]

\* _add_auth_data: the nonce is attached whenever one is stored (user_id is set).
AddAuthData(a) ==
    IF a.nonce = "none" THEN "none"
    ELSE IF IsNonceExpired(a) THEN "stale" ELSE "fresh"

\* The request is sent once; a transport error becomes APIError, then
\* _handle_response raises APIError for 4xx/5xx and for a backend error page.
HandleResponse(kind) ==
    IF kind \in {"transport", "errstatus", "badjson"} THEN "APIError" ELSE "data"

\* _handle_auth_response: a nonce in the response replaces the stored one,
\* otherwise the stored nonce is cleared; the expiration is left as it was.
HandleAuthResponse(a, kind) ==
    IF kind = "ok_nonce" THEN [a EXCEPT !.nonce = "some"]
    ELSE [a EXCEPT !.nonce = "none"]

\* ---- one request, step by step (get/post/put/delete share this shape) ----

ApiStart ==
    /\ apiPc \in {"idle", "done", "raised"}
    /\ \E p \in Privacies : apiPrivacy' = p
    /\ apiPc' = "ensure"
    /\ refreshCount' = 0
    /\ sendCount' = 0
    /\ sentNonce' = "none"
    /\ refreshRet' = "none"
    /\ apiResult' = "none"
    /\ UNCHANGED <<auth, elemVars, fnVars>>

\* _ensure_valid_nonce: one call of _refresh_nonce when the nonce is missing
\* or expired, none otherwise.  `refreshes` counts the calls it made.
EnsureValidNonce(a, kind) ==
    IF NeedsRefresh(a)
    THEN [RefreshNonce(a, kind) EXCEPT !.called = TRUE] @@ [refreshes |-> 1]
    ELSE [ret |-> "true", auth |-> a, called |-> FALSE, refreshes |-> 0]

Exceptions == {"RequestError", "KeyError", "TypeError", "OSError"}

\* A variant that goes back to refresh again when the refresh returned False.
RetryAfterEnsure(ret) ==
    IF ret \in Exceptions THEN "raised"
    ELSE IF ret = "false" THEN "ensure" ELSE "send"

\* `if endpoint_privacy == LOGGED_IN: self._ensure_valid_nonce()`: the boolean
\* it returns is dropped and the request goes on to be sent; only an
\* exception it raises leaves the request.
NextAfterEnsure(ret) == IF ret \in Exceptions THEN "raised" ELSE "send"

\* After the response is handled the request is over: APIError is raised to
\* the caller, data is returned; nothing is sent again.
NextAfterHandle(outcome) == IF outcome = "APIError" THEN "raised" ELSE "done"

ApiEnsure ==
    /\ apiPc = "ensure"
    /\ \E kind \in RefreshKinds :
         LET r == IF apiPrivacy = "logged_in"
                  THEN EnsureValidNonce(auth, kind)
                  ELSE [ret |-> "true", auth |-> auth, called |-> FALSE, refreshes |-> 0]
         IN /\ auth' = r.auth
            /\ refreshCount' = refreshCount + r.refreshes
            /\ refreshRet' = (IF r.refreshes > 0 THEN r.ret ELSE refreshRet)
            /\ apiPc' = NextAfterEnsure(r.ret)
            /\ apiResult' = (IF r.ret \in Exceptions THEN r.ret ELSE apiResult)
    /\ UNCHANGED <<apiPrivacy, sendCount, sentNonce, elemVars, fnVars>>

ApiSend ==
    /\ apiPc = "send"
    /\ sentNonce' = (IF apiPrivacy = "logged_in" THEN AddAuthData(auth) ELSE "none")
    /\ sendCount' = sendCount + 1
    /\ apiPc' = "handle"
    /\ UNCHANGED <<auth, apiPrivacy, refreshCount, refreshRet, apiResult, elemVars, fnVars>>

ApiHandle ==
    /\ apiPc = "handle"
    /\ \E kind \in ResponseKinds :
         /\ apiPc' = NextAfterHandle(HandleResponse(kind))
         /\ apiResult' = HandleResponse(kind)
         /\ auth' = (IF HandleResponse(kind) = "data" /\ apiPrivacy = "logged_in"
                     THEN HandleAuthResponse(auth, kind) ELSE auth)
    /\ UNCHANGED <<apiPrivacy, refreshCount, sendCount, sentNonce, refreshRet, elemVars, fnVars>>

\* Between requests: time passes and the stored nonce expires; login and
\* logout set and clear the session token (main.py).
EnvExpire ==
    /\ apiPc \in {"idle", "done", "raised"}
    /\ auth.nonce = "some" /\ ~auth.expired
    /\ auth' = [auth EXCEPT !.expired = TRUE]
    /\ UNCHANGED <<apiVars, elemVars, fnVars>>

Login ==
    /\ apiPc \in {"idle", "done", "raised"}
    /\ ~auth.token
    /\ auth' = [auth EXCEPT !.token = TRUE]
    /\ UNCHANGED <<apiVars, elemVars, fnVars>>

Logout ==
    /\ apiPc \in {"idle", "done", "raised"}
    /\ auth.token
    /\ auth' = [nonce |-> "none", expired |-> TRUE, token |-> FALSE]
    /\ UNCHANGED <<apiVars, elemVars, fnVars>>

\* One whole authenticated request as its caller sees it: what it returns or
\* raises, and the auth state it leaves (get, lines 315-344; post 360-391).
Request(a, rk, sk) ==
    LET e == EnsureValidNonce(a, rk)
    IN IF NextAfterEnsure(e.ret) = "raised"
       THEN [result |-> e.ret, auth |-> e.auth]
       ELSE IF HandleResponse(sk) = "APIError"
            THEN [result |-> "APIError", auth |-> e.auth]
            ELSE [result |-> "data", auth |-> HandleAuthResponse(e.auth, sk)]

(***************************************************************************)
(* Element records and the remote listings                                 *)
(***************************************************************************)

Absent == "absent"    \* a key the dictionary does not hold

NameA == "g"
NameB == "gs"
NameC == "ll"
Names == {NameA, NameB, NameC}

\* The characters of a name, for the text search in the shell config file.
Chars(n) ==
    CASE n = "g"  -> <<"g">>
      [] n = "gs" -> <<"g", "s">>
      [] OTHER    -> <<"l", "l">>

Statuses == {"new", "to-install", "installed"}

Data(id, name, status, desc, cmd) ==
    [id |-> id, name |-> name, status |-> status, description |-> desc, command |-> cmd]

\* Entries the remote listing can carry.  id 0 is a missing id.
RA     == Data(1, NameA, "new", "d1", "cmd")
RB     == Data(2, NameB, "to-install", "d1", "cmd")
RC     == Data(3, NameC, Absent, "d1", "cmd")
RA2    == Data(1, NameA, Absent, "d1", "cmd")

ListingABC   == [elements |-> <<RA, RB>>, dependencies |-> <<RC>>]
ListingA2    == [elements |-> <<RA2>>, dependencies |-> <<>>]
ListingEmpty == [elements |-> <<>>, dependencies |-> <<>>]
Listings == {ListingABC, ListingA2, ListingEmpty}

(***************************************************************************)
(* core/element.py: ElementManager (synchronizer)                          *)
(***************************************************************************)

\* element_storage.get(str(element_id)): position of the record, 0 if none.
IndexOfId(st, id) ==
    IF \E i \in 1..Len(st) : st[i].id = id
    THEN CHOOSE i \in 1..Len(st) : st[i].id = id
    ELSE 0

\* `if key in existing and existing[key] != value: existing[key] = value`
UpdField(old, new) ==
    IF new # Absent /\ old # Absent /\ old # new THEN new ELSE old

\* The update loop over element_data.items(): every key the stored record
\* already holds takes the remote value, the status key like any other.
UpdateExisting(e, d) ==
    [id          |-> e.id,
     name        |-> UpdField(e.name, d.name),
     status      |-> UpdField(e.status, d.status),
     description |-> UpdField(e.description, d.description),
     command     |-> UpdField(e.command, d.command)]

\* One pass of a loop of _store_elements over one remote entry.
StoreOne(st, d, defaultStatus, isPrimary) ==
    IF d.id = 0 \/ d.name = "" THEN st
    ELSE LET i == IndexOfId(st, d.id)
         IN IF i # 0
            THEN LET u == UpdateExisting(st[i], d)
                 IN [st EXCEPT ![i] = IF isPrimary /\ u.status = Absent
                                      THEN [u EXCEPT !.status = "to-install"]
                                      ELSE u]
            ELSE Append(st, [d EXCEPT !.status = defaultStatus])

RECURSIVE StoreAll(_, _, _, _)
StoreAll(st, ds, defaultStatus, isPrimary) ==
    IF ds = <<>> THEN st
    ELSE StoreAll(StoreOne(st, Head(ds), defaultStatus, isPrimary), Tail(ds),
                  defaultStatus, isPrimary)

\* A variant that stores the dependencies before the main elements.
StoreDependenciesFirst(st, elements, deps) ==
    StoreAll(StoreAll(st, deps, "to-install", FALSE), elements, "new", TRUE)

\* A variant that keeps only what the listing holds.
StoreOnlyListed(st, elements, deps) ==
    StoreAll(StoreAll(<<>>, elements, "new", TRUE), deps, "to-install", FALSE)

\* _store_elements: the main elements first (inserted as "new"), then the
\* dependencies (inserted as "to-install"); save_config follows.
StoreElements(st, elements, deps) ==
    StoreAll(StoreAll(st, elements, "new", TRUE), deps, "to-install", FALSE)

\* The record a name maps to in the dictionary comprehension of
\* _get_stored_elements: a later record of the same name replaces the value.
LastWithName(st, n) ==
    st[CHOOSE j \in 1..Len(st) :
         /\ st[j].name = n
         /\ \A k \in (j + 1)..Len(st) : st[k].name # n]

RECURSIVE StoredFrom(_, _)
StoredFrom(st, i) ==
    IF i > Len(st) THEN <<>>
    ELSE (IF \E j \in 1..(i - 1) : st[j].name = st[i].name
          THEN <<>>
          ELSE <<LastWithName(st, st[i].name)>>) \o StoredFrom(st, i + 1)

\* _get_stored_elements(): the stored elements keyed by name, in the
\* insertion order of the store.
GetStoredElements(st) == StoredFrom(st, 1)

IsPending(elem) == elem.status \in {"to-install", "new"}

RECURSIVE NamesOf(_)
NamesOf(es) == IF es = <<>> THEN <<>> ELSE <<Head(es).name>> \o NamesOf(Tail(es))

\* The list comprehension that ends get_elements_for_install.
PendingNames(st) == NamesOf(SelectSeq(GetStoredElements(st), IsPending))

\* list_in_system: fetch the listing and store it; APIError is caught and
\* only warned about, any other exception leaves the function.
ListInSystem(st, a, rk, sk, listing) ==
    LET r == Request(a, rk, sk)
    IN CASE r.result = "data" ->
              [ret |-> "ok", auth |-> r.auth, saved |-> TRUE, call |-> r.result,
               store |-> StoreElements(st, listing.elements, listing.dependencies)]
         [] r.result = "APIError" ->
              [ret |-> "ok", auth |-> r.auth, saved |-> FALSE, call |-> r.result,
               store |-> st]
         [] OTHER ->
              [ret |-> r.result, auth |-> r.auth, saved |-> FALSE, call |-> r.result,
               store |-> st]

\* A variant that refreshes whatever no_update says.
NeverSkipsRefresh(noUpdate) == FALSE

\* `if not no_update: self.list_in_system()`
SkipsRefresh(noUpdate) == noUpdate

\* get_elements_for_install(no_update): refresh unless no_update, then the
\* names of the stored elements that are "to-install" or "new".
GetElementsForInstall(st, a, noUpdate, rk, sk, listing) ==
    LET l == IF SkipsRefresh(noUpdate)
             THEN [ret |-> "ok", auth |-> a, saved |-> FALSE, call |-> "none", store |-> st]
             ELSE ListInSystem(st, a, rk, sk, listing)
    IN IF l.ret = "ok"
       THEN l @@ [names |-> PendingNames(l.store)]
       ELSE l @@ [names |-> <<>>]

\* add_in_system: one POST; True only for a response with success set.
AddInSystem(a, rk, sk, accepted) ==
    LET r == Request(a, rk, sk)
    IN CASE r.result = "data"     -> [ret |-> IF accepted THEN "true" ELSE "false", auth |-> r.auth]
         [] r.result = "APIError" -> [ret |-> "false", auth |-> r.auth]
         [] OTHER                 -> [ret |-> r.result, auth |-> r.auth]

(***************************************************************************)
(* core/system.py: the shell config file                                   *)
(***************************************************************************)

Shells == {"bash", "fish", "unknown"}

\* get_shell_config_path: a dotfile for a known shell, None for "unknown".
HasConfigPath(shell) == shell # "unknown"

\* alias_line: `alias NAME 'CMD'` for fish, `alias NAME='CMD'` otherwise.
AliasLine(name, shell) ==
    IF shell = "fish"
    THEN <<"alias", " ">> \o Chars(name) \o <<" ", "'", "cmd", "'">>
    ELSE <<"alias", " ">> \o Chars(name) \o <<"=", "'", "cmd", "'">>

\* The comment written above every alias line.
CommentLine == <<"#", " ", "Teapot", " ", "CLI", " ", "alias">>

\* f"alias {alias_name}"
Needle(name) == <<"alias", " ">> \o Chars(name)

Contains(line, needle) ==
    \E k \in 0..(Len(line) - Len(needle)) :
        SubSeq(line, k + 1, k + Len(needle)) = needle

\* A variant that never finds the alias in the file.
FileNeverContains(file, name) == FALSE

\* `f"alias {alias_name}" in content`
FileContains(file, name) ==
    \E i \in 1..Len(file) : Contains(file[i], Needle(name))

\* A variant that rewrites the file with the alias lines alone, whether the
\* alias is there or not.
RewriteAliasFile(name, file, shell, io) ==
    [ret |-> "true", msg |-> "installed", wrote |-> TRUE,
     file |-> <<CommentLine, AliasLine(name, shell)>>]

\* add_alias_to_shell.  ret "barefalse" is the bare `return False` of the
\* unknown shell; "OSError" is mkdir failing outside the try block.
AddAliasToShell(name, file, shell, io) ==
    IF ~HasConfigPath(shell)
    THEN [ret |-> "barefalse", msg |-> "none", file |-> file, wrote |-> FALSE]
    ELSE IF shell = "fish" /\ ~io.mkdirOk
    THEN [ret |-> "OSError", msg |-> "none", file |-> file, wrote |-> FALSE]
    ELSE IF FileContains(file, name)
    THEN [ret |-> "true", msg |-> "exists", file |-> file, wrote |-> FALSE]
    ELSE IF ~io.writeOk
    THEN [ret |-> "false", msg |-> "denied", file |-> file, wrote |-> FALSE]
    ELSE [ret |-> "true", msg |-> "installed", wrote |-> TRUE,
          file |-> file \o <<CommentLine, AliasLine(name, shell)>>]

(***************************************************************************)
(* core/element.py: TeapotElement, TeapotAlias, TeapotPackage              *)
(***************************************************************************)

\* Position of the first stored record of that name, 0 if none.
IndexOfName(st, name) ==
    IF \E i \in 1..Len(st) : st[i].name = name
    THEN CHOOSE i \in 1..Len(st) :
           st[i].name = name /\ \A j \in 1..(i - 1) : st[j].name # name
    ELSE 0

\* What the add_or_create endpoint returns for a name.
RemoteElement(name) == Data(9, name, Absent, "d1", "cmd")

\* _retrieve_element_data: the element of the response, marked "new";
\* APIError is caught, any other exception leaves the function.
RetrieveElementData(a, name, e) ==
    LET r == Request(a, e.rk, e.sk)
    IN CASE r.result = "data" /\ e.remoteHas ->
              [ret |-> "true", auth |-> r.auth, remote |-> TRUE,
               elem |-> [RemoteElement(name) EXCEPT !.status = "new"]]
         [] r.result \in {"data", "APIError"} ->
              [ret |-> "false", auth |-> r.auth, remote |-> TRUE,
               elem |-> RemoteElement(name)]
         [] OTHER ->
              [ret |-> r.result, auth |-> r.auth, remote |-> TRUE,
               elem |-> RemoteElement(name)]

\* A variant that asks the remote service for every name.
AlwaysRetrieve(st, a, name, e) == RetrieveElementData(a, name, e)

\* _load_element_data of a fresh element (id is None): the local store by
\* name first, the remote lookup only when no stored record has the name.
LoadElementData(st, a, name, e) ==
    IF IndexOfName(st, name) # 0
    THEN [ret |-> "true", auth |-> a, remote |-> FALSE,
          elem |-> st[IndexOfName(st, name)]]
    ELSE RetrieveElementData(a, name, e)

\* A variant that does not look at the command payload.
PerformInstallAnyPayload(elem, file, s, e) ==
    AddAliasToShell(elem.name, file, s.shell, e) @@ [cmds |-> 0]

\* TeapotAlias._perform_install: the command payload is required, then
\* `success, output = system_info.add_alias_to_shell(...)`, which cannot
\* unpack a bare False.
PerformInstallAlias(elem, file, s, e) ==
    IF elem.command \in {Absent, ""}
    THEN [ret |-> "false", msg |-> "incomplete", file |-> file, wrote |-> FALSE, cmds |-> 0]
    ELSE LET r == AddAliasToShell(elem.name, file, s.shell, e)
         IN IF r.ret = "barefalse"
            THEN [ret |-> "TypeError", msg |-> "none", file |-> file, wrote |-> FALSE, cmds |-> 0]
            ELSE r @@ [cmds |-> 0]

\* A variant that runs the command whether a manager was found or not.
PerformInstallWithoutCheck(elem, file, s, e) ==
    [ret |-> IF e.cmdOk THEN "true" ELSE "false", msg |-> "output",
     file |-> file, wrote |-> FALSE, cmds |-> 1]

\* TeapotPackage._perform_install: no manager, no command; otherwise the
\* generated command is run once and its exit status is the result.
PerformInstallPackage(elem, file, s, e) ==
    IF s.pm = "none"
    THEN [ret |-> "false", msg |-> "nomanager", file |-> file, wrote |-> FALSE, cmds |-> 0]
    ELSE [ret |-> IF e.cmdOk THEN "true" ELSE "false", msg |-> "output",
          file |-> file, wrote |-> FALSE, cmds |-> 1]

PerformInstall(elem, file, s, e) ==
    IF s.etype = "alias" THEN PerformInstallAlias(elem, file, s, e)
    ELSE PerformInstallPackage(elem, file, s, e)

\* _mark_as_installed: the first stored record of that name becomes
\* "installed" and the configuration is saved; no record, no change.
MarkAsInstalled(st, name) ==
    IF IndexOfName(st, name) = 0 THEN st
    ELSE [st EXCEPT ![IndexOfName(st, name)].status = "installed"]

\* A variant of _mark_as_installed that leaves the change in memory.
MarkWithoutSave(st, name) == FALSE

\* _mark_as_installed calls save_config right after it changed a record, and
\* only then.
MarkSaves(st, name) == IndexOfName(st, name) # 0

\* A variant without the early return for an installed element.
NeverAlreadyInstalled(elem) == FALSE

\* `if self.status == ElementStatus.INSTALLED: return True`
AlreadyInstalled(elem) == elem.status = "installed"

\* A variant that never reloads inside the install call.
ReloadsInlineNever(s, skipRestart) == 0

\* `if self.element_type == "alias" and not skip_restart: restart_terminal()`
ReloadsInline(s, skipRestart) ==
    IF s.etype = "alias" /\ ~skipRestart THEN 1 ELSE 0

\* restart_terminal: no command and False for the unknown shell or a missing
\* config file; otherwise one reload command, whose exit status is returned
\* (run_command turns a command that cannot be started into False).
RestartTerminal(s, file, e) ==
    IF ~HasConfigPath(s.shell) \/ file = <<>> THEN "noop"
    ELSE IF e.reloadOk THEN "true" ELSE "false"

\* A variant in which the install call, having done everything else, reports
\* the failure of its reload as its own.
FailsWithReload(ret, reload) ==
    IF reload \in {"false", "noop"} THEN "false" ELSE ret

\* `self.config.system_info.restart_terminal()`: the value returned by the
\* reload is dropped, the install goes on to _mark_as_installed.
AfterReload(ret, reload) == ret

\* A variant that ignores the skip-install flag.
SkipInstallNever(s) == FALSE

\* `if not self.config.skip_install: success, output = self._perform_install()`
SkipInstall(s) == s.skipInstall

\* TeapotElement.install(skip_restart) on a fresh element of that name.
\* pre is the status the element was loaded with ("none": not loaded).
Install(name, skipRestart, st, file, a, s, e) ==
    LET ld  == LoadElementData(st, a, name, e)
        nop == [ret |-> ld.ret, name |-> name, pre |-> "none", msg |-> "none",
                store |-> st, file |-> file, auth |-> ld.auth, remote |-> ld.remote,
                cmds |-> 0, wrote |-> FALSE, reloads |-> 0, ran |-> FALSE,
                saved |-> FALSE, reload |-> "none"]
    IN IF ld.ret # "true" THEN nop
       ELSE IF AlreadyInstalled(ld.elem)
       THEN [nop EXCEPT !.pre = "installed", !.msg = "already"]
       ELSE LET p == IF SkipInstall(s)
                     THEN [ret |-> "true", msg |-> "none", file |-> file,
                           wrote |-> FALSE, cmds |-> 0]
                     ELSE PerformInstall(ld.elem, file, s, e)
                seen == [nop EXCEPT !.pre = ld.elem.status, !.ret = p.ret,
                                    !.msg = p.msg, !.cmds = p.cmds, !.ran = TRUE]
                rl == IF ReloadsInline(s, skipRestart) = 1
                      THEN RestartTerminal(s, p.file, e) ELSE "none"
            IN IF p.ret = "true"
               THEN [seen EXCEPT !.ret = AfterReload(p.ret, rl),
                                 !.reload = rl,
                                 !.file = p.file, !.wrote = p.wrote,
                                 !.reloads = ReloadsInline(s, skipRestart),
                                 !.store = MarkAsInstalled(st, name),
                                 !.saved = MarkSaves(st, name)]
               ELSE seen

(***************************************************************************)
(* commands/alias.py, commands/package.py: the install and list commands   *)
(***************************************************************************)

MaxBatch == 2    \* longest list of names given on the command line

\* The lists of names a user can give to `install`.
BatchLists == UNION {[1..n -> Names] : n \in 1..MaxBatch}

Sys(etype, shell, pm, skipInstall) ==
    [etype |-> etype, shell |-> shell, pm |-> pm, skipInstall |-> skipInstall]

\* The machines considered: the package commands with and without a
\* package manager, the alias commands under each shell.  The skip-install
\* flag (TEAPOT_SKIP_INSTALL) is read from the environment of each
\* invocation.
SysSet ==
    {Sys("package", "bash", "apt", FALSE), Sys("package", "bash", "none", FALSE),
     Sys("alias", "bash", "apt", FALSE), Sys("alias", "fish", "apt", FALSE),
     Sys("alias", "unknown", "apt", FALSE)}

\* The answers of the nonce endpoint and of the service considered inside
\* the commands.
CmdRefreshKinds == {"ok", "transport"}
CmdResponseKinds == {"ok_nonce", "errstatus"}

\* The answers of the nonce endpoint that make a difference to a request.
RefreshAnswers(a) == IF NeedsRefresh(a) /\ a.token THEN CmdRefreshKinds ELSE {"ok"}

\* What the environment answers during one install call: only the answers
\* the call can ask for vary.  Creating the fish config directory can fail
\* only while the config file does not exist yet.
EnvsFor(n, st, file, a, s) ==
    [rk : IF IndexOfName(st, n) = 0 THEN RefreshAnswers(a) ELSE {"ok"},
     sk : IF IndexOfName(st, n) = 0 THEN CmdResponseKinds ELSE {"ok_nonce"},
     remoteHas : IF IndexOfName(st, n) = 0 THEN BOOLEAN ELSE {TRUE},
     writeOk : IF s.etype = "alias" /\ ~s.skipInstall THEN BOOLEAN ELSE {TRUE},
     mkdirOk : IF s.shell = "fish" /\ file = <<>> THEN BOOLEAN ELSE {TRUE},
     cmdOk : IF s.etype = "package" /\ ~s.skipInstall THEN BOOLEAN ELSE {TRUE},
     reloadOk : IF s.etype = "alias" /\ HasConfigPath(s.shell) THEN BOOLEAN ELSE {TRUE}]

\* The process has ended: normally, by typer.Exit(1), or by an exception.
Terminated == pc \in {"done", "exit1", "crashed"}

NoCall == [name |-> "", pre |-> "none", ret |-> "none", msg |-> "none", cmds |-> 0,
           wrote |-> FALSE, reloads |-> 0, ran |-> FALSE, remote |-> FALSE,
           hadLine |-> FALSE, skipRestart |-> FALSE, stored |-> FALSE,
           reload |-> "none"]

NoSelect == [ret |-> "none", names |-> <<>>, call |-> "none", noUpdate |-> FALSE,
             kept |-> TRUE, fromEmpty |-> FALSE, listing |-> ListingEmpty]

\* `is_batch = len(alias_names) > 1`; the package command passes nothing.
SkipRestart(s, ns) == s.etype = "alias" /\ Len(ns) > 1

\* The reload after the loop: `if is_batch and success_count > 0`.
ReloadsAfterLoop(s, ns, count) ==
    IF s.etype = "alias" /\ Len(ns) > 1 /\ count > 0 THEN 1 ELSE 0

\* The exit of the command: typer.Exit(1) unless every install succeeded.
ExitCodeOf(count, total) == IF count = total THEN 0 ELSE 1

\* A line that declares exactly that alias, in either quoting.
DefinesAlias(line, name) ==
    line = AliasLine(name, "bash") \/ line = AliasLine(name, "fish")

HasAliasLine(file, name) == \E i \in 1..Len(file) : DefinesAlias(file[i], name)

StartRun ==
    /\ \E k \in BOOLEAN : sys' = [sys EXCEPT !.skipInstall = k]
    /\ idx' = 0
    /\ successCount' = 0
    /\ reloads' = 0
    /\ last' = NoCall

\* `install --all` or `install` without names: the names come from
\* get_elements_for_install; an empty list ends the command at once.
CmdInstallAll ==
    /\ pc = "idle"
    /\ \E noUpdate \in BOOLEAN, listing \in Listings,
          rk \in RefreshAnswers(auth), sk \in CmdResponseKinds :
         LET g == GetElementsForInstall(disk, auth, noUpdate, rk, sk, listing)
         IN /\ auth' = g.auth
            /\ store' = g.store
            /\ disk' = IF g.saved THEN g.store ELSE disk
            /\ selResult' = [ret |-> g.ret, names |-> g.names, call |-> g.call,
                             noUpdate |-> noUpdate, kept |-> (g.store = disk),
                             fromEmpty |-> (disk = <<>>),
                             listing |-> IF disk = <<>> /\ g.call = "data"
                                         THEN listing ELSE ListingEmpty]
            /\ names' = g.names
            /\ pc' = IF g.ret # "ok" THEN "crashed"
                     ELSE IF g.names = <<>> THEN "done" ELSE "loop"
            /\ exitCode' = IF g.ret = "ok" /\ g.names = <<>> THEN 0 ELSE -1
    /\ added' = "none"
    /\ StartRun
    /\ UNCHANGED <<shellFile, apiVars, fnVars>>

\* A variant that goes on to the loop whatever add_in_system returned.
InstallsAnyway(ret) == IF ret \in Exceptions THEN "crashed" ELSE "loop"

\* `success = manager.add_in_system(names); if not success: raise
\* typer.Exit(1)`: the loop is entered only after True; an exception that
\* leaves add_in_system ends the command.
AfterAddInSystem(ret) ==
    CASE ret = "true"  -> "loop"
      [] ret = "false" -> "exit1"
      [] OTHER         -> "crashed"

\* `install NAME...`: the names are registered remotely first; a refusal
\* exits with 1 before the loop.
CmdInstallNames ==
    /\ pc = "idle"
    /\ \E ns \in BatchLists, rk \in RefreshAnswers(auth), sk \in CmdResponseKinds,
          accepted \in BOOLEAN :
         LET r == AddInSystem(auth, rk, sk, accepted)
         IN /\ auth' = r.auth
            /\ added' = r.ret
            /\ names' = IF AfterAddInSystem(r.ret) = "loop" THEN ns ELSE <<>>
            /\ pc' = AfterAddInSystem(r.ret)
            /\ exitCode' = IF AfterAddInSystem(r.ret) = "exit1" THEN 1 ELSE -1
    /\ store' = disk
    /\ selResult' = NoSelect
    /\ StartRun
    /\ UNCHANGED <<disk, shellFile, apiVars, fnVars>>

\* `list`: list_in_system alone.
CmdList ==
    /\ pc = "idle"
    /\ \E listing \in Listings, rk \in RefreshAnswers(auth), sk \in CmdResponseKinds :
         LET l == ListInSystem(disk, auth, rk, sk, listing)
         IN /\ auth' = l.auth
            /\ store' = l.store
            /\ disk' = IF l.saved THEN l.store ELSE disk
            /\ pc' = IF l.ret = "ok" THEN "done" ELSE "crashed"
            /\ exitCode' = IF l.ret = "ok" THEN 0 ELSE -1
    /\ names' = <<>>
    /\ selResult' = NoSelect
    /\ added' = "none"
    /\ StartRun
    /\ UNCHANGED <<shellFile, apiVars, fnVars>>

\* ElementManager.uninstall after the confirmation: one DELETE per name, a
\* success counted for each accepted one; the local store is not touched.
RECURSIVE Uninstall(_, _, _, _, _)
Uninstall(a, ns, rk, sk, accepted) ==
    IF ns = <<>> THEN [ret |-> "ok", auth |-> a, count |-> 0]
    ELSE LET r == Request(a, rk, sk)
         IN IF r.result \notin {"data", "APIError"}
            THEN [ret |-> r.result, auth |-> r.auth, count |-> 0]
            ELSE LET rest == Uninstall(r.auth, Tail(ns), rk, sk, accepted)
                 IN [rest EXCEPT !.count =
                       @ + (IF r.result = "data" /\ accepted THEN 1 ELSE 0)]

\* The lists of names given to `uninstall`.
UninstallLists == {<<NameA>>, <<NameA, NameB>>}

\* `uninstall NAME...`: declined at the prompt it exits with 1 at once.
CmdUninstall ==
    /\ pc = "idle"
    /\ \E ns \in UninstallLists, confirmed \in BOOLEAN,
          rk \in RefreshAnswers(auth), sk \in CmdResponseKinds, accepted \in BOOLEAN :
         LET u == IF confirmed THEN Uninstall(auth, ns, rk, sk, accepted)
                  ELSE [ret |-> "ok", auth |-> auth, count |-> -1]
         IN /\ auth' = u.auth
            /\ pc' = CASE u.ret # "ok"         -> "crashed"
                       [] u.count = Len(ns)    -> "done"
                       [] OTHER                -> "exit1"
            /\ exitCode' = CASE u.ret # "ok"      -> -1
                             [] u.count = Len(ns) -> 0
                             [] OTHER             -> 1
    /\ store' = disk
    /\ names' = <<>>
    /\ selResult' = NoSelect
    /\ added' = "none"
    /\ StartRun
    /\ UNCHANGED <<disk, shellFile, apiVars, fnVars>>

\* One pass of the loop: a fresh element of the next name is installed.
InstallStep ==
    /\ pc = "loop"
    /\ idx < Len(names)
    /\ \E e \in EnvsFor(names[idx + 1], store, shellFile, auth, sys) :
         LET n == names[idx + 1]
             r == Install(n, SkipRestart(sys, names), store, shellFile, auth, sys, e)
         IN /\ auth' = r.auth
            /\ store' = r.store
            /\ disk' = IF r.saved THEN r.store ELSE disk
            /\ shellFile' = r.file
            /\ reloads' = reloads + r.reloads
            /\ last' = [name |-> n, pre |-> r.pre, ret |-> r.ret, msg |-> r.msg,
                        cmds |-> r.cmds, wrote |-> r.wrote, reloads |-> r.reloads,
                        ran |-> r.ran, remote |-> r.remote,
                        hadLine |-> HasAliasLine(shellFile, n),
                        skipRestart |-> SkipRestart(sys, names),
                        stored |-> IndexOfName(store, n) # 0,
                        reload |-> r.reload]
            /\ IF r.ret \in Exceptions
               THEN /\ pc' = "crashed"
                    /\ UNCHANGED <<idx, successCount>>
               ELSE /\ pc' = pc
                    /\ idx' = idx + 1
                    /\ successCount' = successCount + (IF r.ret = "true" THEN 1 ELSE 0)
    /\ UNCHANGED <<sys, names, exitCode, selResult, added, apiVars, fnVars>>

\* After the loop: the single reload of a batch of aliases, then the exit.
FinishBatch ==
    /\ pc = "loop"
    /\ idx = Len(names)
    /\ reloads' = reloads + ReloadsAfterLoop(sys, names, successCount)
    /\ exitCode' = ExitCodeOf(successCount, Len(names))
    /\ pc' = "done"
    /\ UNCHANGED <<auth, sys, store, disk, shellFile, names, idx, successCount,
                   selResult, added, last, apiVars, fnVars>>

\* The process ends, or is interrupted inside its loop; the next invocation
\* starts from what is on disk.
ProcessExit ==
    /\ Terminated \/ pc = "loop"
    /\ pc' = "idle"
    /\ store' = disk
    /\ names' = <<>>
    /\ exitCode' = -1
    /\ selResult' = NoSelect
    /\ added' = "none"
    /\ sys' = [sys EXCEPT !.skipInstall = FALSE]
    /\ idx' = 0
    /\ successCount' = 0
    /\ reloads' = 0
    /\ last' = NoCall
    /\ UNCHANGED <<auth, disk, shellFile, apiVars, fnVars>>

ApiIdle ==
    /\ apiPc = "idle"
    /\ apiPrivacy = "logged_in"
    /\ refreshCount = 0
    /\ sendCount = 0
    /\ sentNonce = "none"
    /\ refreshRet = "none"
    /\ apiResult = "none"

ElemIdle ==
    /\ store = <<>>
    /\ disk = <<>>
    /\ shellFile = <<>>
    /\ pc = "idle"
    /\ names = <<>>
    /\ idx = 0
    /\ successCount = 0
    /\ reloads = 0
    /\ exitCode = -1
    /\ selResult = NoSelect
    /\ added = "none"
    /\ last = NoCall

FnIdle ==
    /\ fnCall = NoFn
    /\ fnResult = NotReturned

Init ==
    /\ auth = [nonce |-> "none", expired |-> TRUE, token |-> TRUE]
    /\ sys \in SysSet
    /\ ApiIdle
    /\ ElemIdle
    /\ FnIdle

Next ==
    \/ CmdInstallAll
    \/ CmdInstallNames
    \/ CmdList
    \/ CmdUninstall
    \/ InstallStep
    \/ FinishBatch
    \/ ProcessExit

Spec == Init /\ [][Next]_vars

InitApi ==
    /\ auth \in AuthStates
    /\ sys = Sys("package", "bash", "apt", FALSE)
    /\ ApiIdle
    /\ ElemIdle
    /\ FnIdle

NextApi ==
    \/ ApiStart
    \/ ApiEnsure
    \/ ApiSend
    \/ ApiHandle
    \/ EnvExpire
    \/ Login
    \/ Logout

SpecApi == InitApi /\ [][NextApi]_vars

(***************************************************************************)
(* Functions applied on their own                                          *)
(***************************************************************************)

\* ---- core/system.py: get_package_install_command ----

\* The keys of the `commands` table.
PackageManagers ==
    {"apt", "yum", "dnf", "pacman", "brew", "zypper", "apk", "pkg", "portage"}

\* What self.package_manager can hold: a key of the table, None, or a
\* manager the table does not know.
DetectedManagers == PackageManagers \cup {"none", "other"}

\* Package names, as texts: with a blank, with a shell metacharacter, and one
\* that reads like an option.
PackageNames ==
    {<<"curl">>, <<"wget">>, <<"my", " ", "pkg">>, <<"a", ";", "b">>, <<"-y">>}

\* A literal argument of a command.
Arg(word) == <<word>>

\* The arguments the table puts before the package name.
CommandPrefix(pm) ==
    CASE pm = "apt"     -> <<Arg("sudo"), Arg("apt"), Arg("install"), Arg("-y")>>
      [] pm = "yum"     -> <<Arg("sudo"), Arg("yum"), Arg("install"), Arg("-y")>>
      [] pm = "dnf"     -> <<Arg("sudo"), Arg("dnf"), Arg("install"), Arg("-y")>>
      [] pm = "pacman"  -> <<Arg("sudo"), Arg("pacman"), Arg("-S"), Arg("--noconfirm")>>
      [] pm = "brew"    -> <<Arg("brew"), Arg("install")>>
      [] pm = "zypper"  -> <<Arg("sudo"), Arg("zypper"), Arg("install"), Arg("-y")>>
      [] pm = "apk"     -> <<Arg("sudo"), Arg("apk"), Arg("add")>>
      [] pm = "pkg"     -> <<Arg("sudo"), Arg("pkg"), Arg("install"), Arg("-y")>>
      [] pm = "portage" -> <<Arg("sudo"), Arg("emerge")>>
      [] OTHER          -> <<>>

\* The words of a text, cut at its blanks.
Words(text) ==
    LET w == SelectSeq(text, LAMBDA c : c # " ")
    IN [i \in 1..Len(w) |-> <<w[i]>>]

\* A variant that cuts the package name at its blanks.
GetSplitInstallCommand(pm, name) ==
    IF pm \notin PackageManagers THEN <<>> ELSE CommandPrefix(pm) \o Words(name)

\* get_package_install_command: [] without a manager or for one the table
\* does not know, otherwise the entry of the table, the name its last element.
GetPackageInstallCommand(pm, name) ==
    IF pm \notin PackageManagers THEN <<>> ELSE CommandPrefix(pm) \o <<name>>

ApplyGetPackageInstallCommand ==
    /\ fnCall.fn = "get_package_install_command"
    /\ ~fnResult.done
    /\ fnResult' = Returned(GetPackageInstallCommand(fnCall.pm, fnCall.name))
    /\ UNCHANGED <<auth, apiVars, elemVars, fnCall>>

\* ---- core/api.py: what a request does with the response it received ----

\* ERROR_STATUS_CODE_RANGE = range(400, 600).
ErrorStatusFirst == 400
ErrorStatusEnd == 600

IsErrorStatus(status) == status >= ErrorStatusFirst /\ status < ErrorStatusEnd

\* Statuses on both sides of each end of the range.
HttpStatuses == {200, 399, 400, 404, 500, 599, 600}

\* Response bodies: a JSON object with or without `message` and `nonce`,
\* JSON that is not an object (null, a list, a string), and text that is not
\* JSON, plain or looking like a backend error page.
JsonObjects ==
    [json : {"object"}, message : {"Not found", Absent}, nonce : BOOLEAN,
     text : {"plain"}]
Bodies ==
    JsonObjects
      \cup [json : {"other"}, message : {Absent}, nonce : {FALSE}, text : {"plain"}]
      \cup [json : {"invalid"}, message : {Absent}, nonce : {FALSE},
            text : {"plain", "<html"}]

NoStatusCode == <<>>
Raised(exc, message, code) ==
    [raised |-> exc, message |-> message, status_code |-> code, data |-> <<>>]
ReturnedData(body) ==
    [raised |-> "none", message |-> <<>>, status_code |-> NoStatusCode,
     data |-> <<body>>]

\* _detect_backend_error.
DetectBackendError(text) == text = "<html"

\* _handle_response.  For an error status the message is read with
\* error_data.get("message", "HTTP <status>") under `except JSONDecodeError`:
\* text that is not JSON gives "HTTP <status>: <text>", JSON that is not an
\* object has no .get and raises AttributeError.
HandleHttpResponse(status, body) ==
    IF IsErrorStatus(status)
    THEN CASE body.json = "object" ->
                Raised("APIError",
                       IF body.message # Absent THEN <<body.message>>
                       ELSE <<"HTTP ", ToString(status)>>,
                       <<status>>)
           [] body.json = "invalid" ->
                Raised("APIError", <<"HTTP ", ToString(status), ": ", body.text>>,
                       <<status>>)
           [] OTHER -> Raised("AttributeError", <<>>, NoStatusCode)
    ELSE IF body.json # "invalid" THEN ReturnedData(body)
    ELSE IF DetectBackendError(body.text)
         THEN Raised("APIError", <<"Backend returned an invalid response">>,
                     NoStatusCode)
         ELSE ReturnedData(body)

\* get/post/put/delete after the response arrived: _handle_response, then for
\* a LOGGED_IN endpoint _handle_auth_response on the data it returned.
RequestAfterResponse(a, privacy, status, body) ==
    LET r == HandleHttpResponse(status, body)
    IN IF r.raised # "none" \/ privacy # "logged_in"
       THEN [result |-> r, auth |-> a]
       ELSE IF body.json = "other"
            THEN [result |-> Raised("AttributeError", <<>>, NoStatusCode), auth |-> a]
            ELSE [result |-> r,
                  auth |-> HandleAuthResponse(a, IF body.nonce THEN "ok_nonce"
                                                 ELSE "ok_nononce")]

ApplyRequestAfterResponse ==
    /\ fnCall.fn = "request"
    /\ ~fnResult.done
    /\ LET out == RequestAfterResponse(auth, fnCall.privacy, fnCall.status,
                                       fnCall.body)
       IN /\ fnResult' = Returned([result |-> out.result, authBefore |-> auth])
          /\ auth' = out.auth
    /\ UNCHANGED <<apiVars, elemVars, fnCall>>

\* ---- core/config.py: save_config then load_config ----

\* A scalar with its Python type: None, an int or a str, the value as text.
NoneValue == <<"none", "">>
IntOf(text) == <<"int", text>>
StrOf(text) == <<"str", text>>
Invalid == <<"invalid", "">>

DigitTexts == {"0", "1", "3", "5"}

\* The type yaml gives a plain (unquoted) scalar.
Resolve(text) ==
    IF text \in DigitTexts THEN "int"
    ELSE IF text \in {"null", ""} THEN "none"
    ELSE "str"

\* yaml.dump of a scalar: a str that would read back as another type is quoted.
YamlDump(v) ==
    CASE v[1] = "none" -> [style |-> "plain", text |-> "null"]
      [] v[1] = "int"  -> [style |-> "plain", text |-> v[2]]
      [] OTHER         -> [style |-> IF Resolve(v[2]) # "str" THEN "quoted" ELSE "plain",
                           text |-> v[2]]

\* yaml.safe_load of a scalar.
YamlLoad(y) ==
    IF y.style = "quoted" THEN StrOf(y.text)
    ELSE CASE Resolve(y.text) = "int"  -> IntOf(y.text)
           [] Resolve(y.text) = "none" -> NoneValue
           [] OTHER                    -> StrOf(y.text)

\* TeapotConfig(**config_data) validates each value against the declared type
\* of its field: a str of digits becomes an int where an int is declared, an
\* int is no str.
ValidateInt(v) ==
    CASE v[1] = "int" -> v
      [] v[1] = "str" /\ v[2] \in DigitTexts -> IntOf(v[2])
      [] OTHER -> Invalid
ValidateOptInt(v) == IF v = NoneValue THEN NoneValue ELSE ValidateInt(v)
ValidateStr(v) == IF v[1] = "str" THEN v ELSE Invalid
ValidateOptStr(v) == IF v = NoneValue THEN NoneValue ELSE ValidateStr(v)

\* A record of a store with the types the listing gives its values.
TypedRecord(r) ==
    [id |-> IntOf(ToString(r.id)), name |-> StrOf(r.name), status |-> StrOf(r.status),
     description |-> StrOf(r.description), command |-> StrOf(r.command)]

\* The persisted fields: api.base_url, system.id, auth.nonce, verbosity and
\* one per-type store.  set_config assigns the text it was given unless the
\* field holds an int or a bool at that moment, so a field that was None can
\* hold a str of digits.
Configs ==
    [baseUrl : {StrOf("https://test.com"), StrOf("5")},
     systemId : {NoneValue, IntOf("5"), StrOf("5")},
     nonce : {NoneValue, StrOf("n1"), StrOf("null")},
     verbosity : {IntOf("0"), IntOf("3")},
     store : {<<>>, <<TypedRecord(RA)>>}]

\* TEAPOT_VERBOSITY: not set, set by the -v option, or set to a text that is
\* no number.
VerbosityEnvs == {"unset", "1", "abc"}

\* model_dump(mode="json") hands each value on as it is; yaml.dump writes it.
SaveConfig(c) ==
    [baseUrl |-> YamlDump(c.baseUrl), systemId |-> YamlDump(c.systemId),
     nonce |-> YamlDump(c.nonce), verbosity |-> YamlDump(c.verbosity),
     store |-> [i \in 1..Len(c.store) |->
                  [f \in DOMAIN c.store[i] |-> YamlDump(c.store[i][f])]]]

\* load_config: yaml.safe_load, validation, then TeapotConfig.__init__ takes
\* the verbosity from TEAPOT_VERBOSITY when that holds a number.  The stores
\* are the id -> record mappings every call site uses.
LoadConfig(file, env) ==
    LET c == [baseUrl |-> ValidateStr(YamlLoad(file.baseUrl)),
              systemId |-> ValidateOptInt(YamlLoad(file.systemId)),
              nonce |-> ValidateOptStr(YamlLoad(file.nonce)),
              verbosity |-> ValidateInt(YamlLoad(file.verbosity)),
              store |-> [i \in 1..Len(file.store) |->
                           [f \in DOMAIN file.store[i] |-> YamlLoad(file.store[i][f])]]]
    IN IF Invalid \in {c.baseUrl, c.systemId, c.nonce, c.verbosity}
       THEN [raised |-> "ValidationError"]
       ELSE [raised |-> "none",
             config |-> IF env \in DigitTexts
                        THEN [c EXCEPT !.verbosity = IntOf(env)] ELSE c]

ApplySaveThenLoad ==
    /\ fnCall.fn = "save_then_load"
    /\ ~fnResult.done
    /\ fnResult' = Returned(LoadConfig(SaveConfig(fnCall.config), fnCall.env))
    /\ UNCHANGED <<auth, apiVars, elemVars, fnCall>>

\* ---- core/element.py: _store_elements on one listing ----

\* The name of RA under another id.
RD == Data(4, NameA, Absent, "d1", "cmd")

\* The `elements` and the `dependencies` list of a listing: up to two
\* entries, the same entry or the same name possibly twice.
ListedEntries == {RA, RB, RD}
ListedLists ==
    {<<>>} \cup {<<x>> : x \in ListedEntries}
           \cup {<<x, y>> : x \in ListedEntries, y \in ListedEntries}

\* Stores a refresh can start from: ids and names each occur once.
StoresBefore ==
    {<<>>, <<RA>>,
     <<[RA EXCEPT !.status = "installed", !.description = "d0"], RB>>}

ApplyStoreElements ==
    /\ fnCall.fn = "_store_elements"
    /\ ~fnResult.done
    /\ fnResult' = Returned(StoreElements(fnCall.store, fnCall.elements,
                                          fnCall.dependencies))
    /\ UNCHANGED <<auth, apiVars, elemVars, fnCall>>

\* ---- core/element.py: get_elements_for_install(no_update=True) ----

\* Stores one refresh leaves behind.
StoresAfterRefresh ==
    {StoreElements(st, el, <<>>) : st \in StoresBefore, el \in ListedLists}

ApplyGetElementsForInstall ==
    /\ fnCall.fn = "get_elements_for_install"
    /\ ~fnResult.done
    /\ fnResult' = Returned(GetElementsForInstall(fnCall.store, auth, TRUE, "ok",
                                                  "ok_nonce", ListingEmpty).names)
    /\ UNCHANGED <<auth, apiVars, elemVars, fnCall>>

\* ---- core/package.py: TeapotPackage._perform_install ----

\* What run_command is handed: a list of arguments, or one str.
ListCommand(argv) == [kind |-> "list", words |-> argv]
StrCommand(word) == [kind |-> "str", words |-> <<word>>]

\* The `commands` an element can carry: none, or up to three commands.
Cmd1 == <<Arg("make")>>
Cmd2 == <<Arg("make"), Arg("install")>>
Cmd3 == <<Arg("ldconfig")>>
CustomCommands == {<<>>, <<Cmd1>>, <<Cmd1, Cmd2>>, <<Cmd1, Cmd2, Cmd3>>}

\* The longest run of invocations of one install: the five words of the
\* longest entry of the table.
MaxRuns == 5

\* The loop over `commands`: each item is run in turn, the k-th run of the
\* call exits non-zero when k = failAt, and the first failure returns at
\* once with a message that holds the item.
RECURSIVE RunInOrder(_, _, _)
RunInOrder(items, done, failAt) ==
    IF items = <<>>
    THEN [ret |-> "true", msg |-> "installed", ran |-> <<>>, failed |-> <<>>]
    ELSE IF done + 1 = failAt
    THEN [ret |-> "false", msg |-> "failedcommand", ran |-> <<Head(items)>>,
          failed |-> <<Head(items)>>]
    ELSE LET r == RunInOrder(Tail(items), done + 1, failAt)
         IN [r EXCEPT !.ran = <<Head(items)>> \o @]

\* get_effective_package_manager: the preferred manager when set, else the
\* detected one.
EffectivePackageManager(preferred, detected) ==
    IF preferred # "none" THEN preferred ELSE detected

\* The items the loop `for command in commands` takes: each custom command,
\* or, without custom commands, each element of the one list that
\* get_package_install_command returned.
LoopItems(custom, detected, name) ==
    IF custom # <<>>
    THEN [i \in 1..Len(custom) |-> ListCommand(custom[i])]
    ELSE LET argv == GetPackageInstallCommand(detected, name)
         IN [i \in 1..Len(argv) |-> StrCommand(argv[i])]

\* _perform_install of core/package.py.  With skip_install set the loop
\* reads `output` before any assignment.
PackagePerformInstall(custom, preferred, detected, name, skip, failAt) ==
    LET none == [ret |-> "false", msg |-> "none", ran |-> <<>>, failed |-> <<>>]
    IN IF custom = <<>> /\ EffectivePackageManager(preferred, detected) = "none"
       THEN [none EXCEPT !.msg = "nomanager"]
       ELSE IF custom = <<>> /\ GetPackageInstallCommand(detected, name) = <<>>
       THEN [none EXCEPT !.msg = "unsupported"]
       ELSE IF skip
       THEN [none EXCEPT !.ret = "UnboundLocalError"]
       ELSE RunInOrder(LoopItems(custom, detected, name), 0, failAt)

ApplyPackagePerformInstall ==
    /\ fnCall.fn = "package._perform_install"
    /\ ~fnResult.done
    /\ fnResult' = Returned(PackagePerformInstall(fnCall.custom, fnCall.preferred,
                                                  fnCall.detected, fnCall.name,
                                                  FALSE, fnCall.failAt))
    /\ UNCHANGED <<auth, apiVars, elemVars, fnCall>>

\* ---- core/element.py: TeapotElement.install on one alias ----

\* Stores with the record of the alias: complete, without the `command`
\* key, and with an empty command.
AliasStores ==
    {<<RA>>, <<[RA EXCEPT !.command = Absent]>>, <<[RA EXCEPT !.command = ""]>>}

\* Shell config files: missing or empty, with a line of the user's own, with
\* the alias of a longer name, and with the alias itself.
UserLine == <<"export", " ", "EDITOR">>
AliasFiles ==
    {<<>>, <<UserLine>>, <<CommentLine, AliasLine(NameB, "bash")>>,
     <<UserLine, CommentLine, AliasLine(NameA, "bash")>>}

\* The alias machines, with the skip-install flag either way.
AliasMachines == {Sys("alias", sh, "apt", k) : sh \in Shells, k \in BOOLEAN}

InstallCalls ==
    UNION {[fn : {"install"}, name : {NameA}, store : {st}, file : {f}, sys : {s},
            skipRestart : BOOLEAN,
            env : EnvsFor(NameA, st, f,
                          [nonce |-> "none", expired |-> FALSE, token |-> TRUE], s)] :
           st \in AliasStores, f \in AliasFiles, s \in AliasMachines}

ApplyInstall ==
    /\ fnCall.fn = "install"
    /\ ~fnResult.done
    /\ fnResult' = Returned(Install(fnCall.name, fnCall.skipRestart, fnCall.store,
                                    fnCall.file, auth, fnCall.sys, fnCall.env))
    /\ UNCHANGED <<auth, apiVars, elemVars, fnCall>>

\* The configuration object as far as the system profile goes: the cached
\* instance (_system_info is None or not) and the detections run so far.
FreshConfig == [cached |-> FALSE, detections |-> 0]

\* TeapotConfig.system_info: SystemInfo() is built, and the machine probed,
\* only while nothing is cached.
SystemInfoProperty(cfg) ==
    IF cfg.cached THEN cfg
    ELSE [cached |-> TRUE, detections |-> cfg.detections + 1]

\* get_system_info: `return SystemInfo()`, a new instance and a new
\* detection at every call; the cache of the configuration is not used.
GetSystemInfo(cfg) == [cfg EXCEPT !.detections = @ + 1]

\* How one install call of a batch ends: the installer ran and succeeded or
\* failed, the skip-install flag made it succeed, the element was installed
\* already, or it was not found.
CallOutcomes == {"installed", "failed", "skipped", "already", "notfound"}
CallSucceeds(o) == o \in {"installed", "skipped", "already"}

\* One call of TeapotElement.install: _perform_install reads
\* self.config.system_info, and so does the inline reload of an alias.
ProfileAfterInstall(cfg, etype, skipRestart, o) ==
    LET c1 == IF o \in {"installed", "failed"} THEN SystemInfoProperty(cfg) ELSE cfg
    IN IF o \in {"installed", "skipped"} /\ etype = "alias" /\ ~skipRestart
       THEN SystemInfoProperty(c1) ELSE c1

RECURSIVE ProfileAfterLoop(_, _, _, _)
ProfileAfterLoop(cfg, etype, skipRestart, calls) ==
    IF calls = <<>> THEN cfg
    ELSE ProfileAfterLoop(ProfileAfterInstall(cfg, etype, skipRestart, Head(calls)),
                          etype, skipRestart, Tail(calls))

SuccessCount(calls) == Cardinality({i \in 1..Len(calls) : CallSucceeds(calls[i])})

\* The reload at the end of a batch of aliases: ElementManager.install asks
\* get_system_info(), the alias command asks config.system_info.
BatchInstallProfile(path, etype, calls) ==
    LET cfg == ProfileAfterLoop(FreshConfig, etype, Len(calls) > 1, calls)
    IN IF Len(calls) > 1 /\ etype = "alias" /\ SuccessCount(calls) > 0
       THEN IF path = "manager" THEN GetSystemInfo(cfg) ELSE SystemInfoProperty(cfg)
       ELSE cfg

BatchInstallCalls ==
    [fn : {"batch_install"}, path : {"manager", "command"},
     etype : {"alias", "package"},
     calls : UNION {[1..n -> CallOutcomes] : n \in 1..MaxBatch}]

ApplyBatchInstall ==
    /\ fnCall.fn = "batch_install"
    /\ ~fnResult.done
    /\ fnResult' = Returned(BatchInstallProfile(fnCall.path, fnCall.etype, fnCall.calls))
    /\ UNCHANGED <<auth, apiVars, elemVars, fnCall>>

\* What the service answers to the DELETE of one name: success set, success
\* not set, an error that becomes APIError, or the transport error that
\* leaves the nonce refresh as an exception.
UninstallAnswers == {"success", "refused", "APIError", "RequestError"}

\* `for element_id, name in element_storage.items(): if name == element_name:
\* ... break`, then `del element_storage[element_id_to_remove]`: the first
\* record of that name is removed, any other record of the name stays.
RemoveFirstNamed(st, name) ==
    LET i == IndexOfName(st, name)
    IN IF i = 0 THEN st ELSE SubSeq(st, 1, i - 1) \o SubSeq(st, i + 1, Len(st))

\* The loop of uninstall over the names.  ElementManager.uninstall of
\* element_manager.py removes the record after a DELETE that succeeded; the
\* uninstall of element.py, which the commands call, counts the success and
\* leaves the store alone.
RECURSIVE UninstallLoop(_, _, _, _)
UninstallLoop(path, st, ns, answers) ==
    IF ns = <<>> THEN [store |-> st, raised |-> FALSE, count |-> 0]
    ELSE IF Head(answers) = "RequestError"
    THEN [store |-> st, raised |-> TRUE, count |-> 0]
    ELSE LET ok   == Head(answers) = "success"
             st1  == IF ok /\ path = "element_manager"
                     THEN RemoveFirstNamed(st, Head(ns)) ELSE st
             rest == UninstallLoop(path, st1, Tail(ns), Tail(answers))
         IN [rest EXCEPT !.count = @ + (IF ok THEN 1 ELSE 0)]

\* uninstall(names, confirm): declined at the prompt, nothing is asked of the
\* service and nothing changes.
UninstallElements(path, st, ns, confirmed, answers) ==
    IF ~confirmed THEN [store |-> st, raised |-> FALSE, count |-> 0]
    ELSE UninstallLoop(path, st, ns, answers)

\* Stores at the time of an uninstall: empty, one record, two names, and one
\* name under two ids.
UninstallStores == StoresBefore \cup {<<RA, RD>>}

UninstallCalls ==
    UNION {[fn : {"uninstall"}, path : {"element", "element_manager"},
            store : UninstallStores, names : {ns}, confirmed : BOOLEAN,
            answers : [1..Len(ns) -> UninstallAnswers]] : ns \in UninstallLists}

ApplyUninstall ==
    /\ fnCall.fn = "uninstall"
    /\ ~fnResult.done
    /\ fnResult' = Returned(UninstallElements(fnCall.path, fnCall.store, fnCall.names,
                                              fnCall.confirmed, fnCall.answers))
    /\ UNCHANGED <<auth, apiVars, elemVars, fnCall>>

FnCalls ==
    [fn : {"get_package_install_command"}, pm : DetectedManagers,
     name : PackageNames]
      \cup [fn : {"request"}, privacy : Privacies,
            status : HttpStatuses, body : Bodies]
      \cup [fn : {"save_then_load"}, config : Configs, env : VerbosityEnvs]
      \cup [fn : {"_store_elements"}, store : StoresBefore,
            elements : ListedLists, dependencies : ListedLists]
      \cup [fn : {"get_elements_for_install"}, store : StoresAfterRefresh]
      \cup [fn : {"package._perform_install"}, custom : CustomCommands,
            preferred : {"none", "brew"}, detected : {"none", "apt", "other"},
            name : {<<"curl">>}, failAt : 0..MaxRuns]
      \cup InstallCalls
      \cup BatchInstallCalls
      \cup UninstallCalls

InitFn ==
    /\ auth \in [nonce : {"none", "some"}, expired : {FALSE}, token : {TRUE}]
    /\ sys = Sys("package", "bash", "apt", FALSE)
    /\ ApiIdle
    /\ ElemIdle
    /\ fnCall \in FnCalls
    /\ fnCall.fn # "request" => auth.nonce = "none"
    /\ fnResult = NotReturned

NextFn ==
    \/ ApplyGetPackageInstallCommand
    \/ ApplyRequestAfterResponse
    \/ ApplySaveThenLoad
    \/ ApplyStoreElements
    \/ ApplyGetElementsForInstall
    \/ ApplyPackagePerformInstall
    \/ ApplyInstall
    \/ ApplyBatchInstall
    \/ ApplyUninstall

SpecFn == InitFn /\ [][NextFn]_vars

(***************************************************************************)
(* Properties                                                              *)
(***************************************************************************)

\* The status the store holds for a name ("none": no record of that name).
StatusOf(st, name) ==
    IF IndexOfName(st, name) = 0 THEN "none" ELSE st[IndexOfName(st, name)].status

\* This step is one call of TeapotElement.install inside the loop.
InstallCalled == pc = "loop" /\ idx < Len(names) /\ pc' # "idle"

\* The command is over and its loop was entered.
BatchEnded == pc = "done" \/ (pc = "crashed" /\ last # NoCall)

\* C1: for a package or an alias stored with status "installed", a call of
\* install reports success, runs no install command, leaves the shell config
\* file as it was and leaves the element "installed", so that every
\* repetition of the call is again such a call.
C1_InstalledIsNoop ==
    [][(InstallCalled /\ StatusOf(store, names[idx + 1]) = "installed")
         => /\ last'.ret = "true"
            /\ last'.cmds = 0
            /\ ~last'.wrote
            /\ shellFile' = shellFile
            /\ StatusOf(disk', names[idx + 1]) = "installed"]_vars

\* C1 witness: the second of two calls for the same name in one batch found
\* the element installed and reported success.
C1_Witness ==
    /\ idx = 2
    /\ names[1] = names[2]
    /\ last.pre = "installed"
    /\ last.ret = "true"
    /\ ~sys.skipInstall

\* Position of a status in the order new -> to-install -> installed.
Rank(status) ==
    CASE status = "new"        -> 0
      [] status = "to-install" -> 1
      [] OTHER                 -> 2

\* C2: in every step (refresh, selectForInstall, install) the persisted
\* status of every stored record stays where it is or moves forward in the
\* order new -> to-install -> installed; in particular a refresh never takes
\* an "installed" record back, whatever status the listing carries for its id.
C2_StatusOnlyForward ==
    [][\A i \in 1..Len(disk) :
         /\ i <= Len(disk')
         /\ disk'[i].id = disk[i].id
         /\ Rank(disk'[i].status) >= Rank(disk[i].status)]_vars

\* C3: in a batch of more than one alias name no reload happens while the
\* loop runs, and when the batch has ended the terminal was reloaded exactly
\* once if at least one install succeeded and not at all if none did.
C3_BatchReloadsOnce ==
    (sys.etype = "alias" /\ Len(names) > 1)
        => /\ pc = "loop" => reloads = 0
           /\ BatchEnded => reloads = (IF successCount > 0 THEN 1 ELSE 0)

\* The single install call of a batch of one alias name has returned True.
SingleAliasSucceeded ==
    /\ sys.etype = "alias"
    /\ Len(names) = 1
    /\ idx = 1
    /\ last.ret = "true"

\* C4 as stated: in a batch of exactly one alias name a successful install
\* reloads the terminal inline exactly once, and nothing reloads after the
\* loop: one reload in all.
C4_SingleReloadsAsStated ==
    SingleAliasSucceeded => (last.reloads = 1 /\ reloads = 1)

\* C4 amended: in a batch of exactly one alias name a successful install of
\* an alias not already recorded as installed reloads the terminal inline
\* exactly once and nothing reloads after the loop; for an alias already
\* installed the call succeeds without any reload.
C4_SingleReloadsInline ==
    SingleAliasSucceeded
        => IF last.pre = "installed"
           THEN last.reloads = 0 /\ reloads = 0
           ELSE last.reloads = 1 /\ reloads = 1

\* C4 witness: a batch of one alias, installed by this call, has ended after
\* its one inline reload.
C4_Witness ==
    /\ SingleAliasSucceeded
    /\ pc = "done"
    /\ last.pre # "installed"
    /\ last.wrote
    /\ reloads = 1

\* Install calls of the batch that were made: those that returned, and the
\* one that raised.
Attempted == IF pc = "crashed" THEN idx + 1 ELSE idx

\* C5: when a batch has ended, the install of every one of its names was
\* attempted, in order, whatever the earlier calls returned, and the command
\* reports success iff the success count equals the number of names.
C5_WholeBatchAttempted ==
    BatchEnded
        => /\ Attempted = Len(names)
           /\ (exitCode = 0) <=> (successCount = Len(names))

\* The last selectForInstall asked for the remote listing and the call failed.
ListingFailed ==
    /\ selResult.ret # "none"
    /\ ~selResult.noUpdate
    /\ selResult.call # "data"

\* C6: when the listing call of selectForInstall (noUpdate = false) fails,
\* also while obtaining the nonce, selectForInstall returns normally, the
\* store keeps its persisted content and the names returned are the pending
\* names of that store.
C6_ListingFailureFallsBack ==
    ListingFailed
        => /\ selResult.ret = "ok"
           /\ selResult.kept
           /\ idx = 0 => selResult.names = PendingNames(disk)

\* The last selectForInstall started from an empty store and received the
\* listing with primaries A, B and dependency C.
SelectedABCFromEmpty ==
    /\ selResult.fromEmpty
    /\ ~selResult.noUpdate
    /\ selResult.call = "data"
    /\ selResult.listing = ListingABC

LinesDefining(file, name) == {i \in 1..Len(file) : DefinesAlias(file[i], name)}

\* The last install call reached the alias installer while the file already
\* held a line defining that alias.
InstalledAgain ==
    /\ sys.etype = "alias"
    /\ ~sys.skipInstall
    /\ last.ran
    /\ last.hadLine

C9_InterruptionSafe ==
    [][InstallCalled
         => /\ last'.ret = "true" => StatusOf(disk', names[idx + 1]) = "installed"
            /\ \A i \in 1..Len(disk) :
                 disk[i].name # names[idx + 1]
                     => (i <= Len(disk') /\ disk'[i] = disk[i])]_vars

\* C10: within one authenticated request there is at most one nonce refresh
\* attempt and the request is sent at most once: after a refresh, successful
\* or failed, neither a second refresh nor a second send follows; a request
\* to a public endpoint attempts no refresh.
C10_OneRefreshPerRequest ==
    /\ refreshCount <= 1
    /\ sendCount <= 1
    /\ apiPrivacy = "public" => refreshCount = 0

\* C10 witness: a request whose one refresh failed has been sent once and is
\* over.
C10_Witness ==
    /\ apiPc \in {"done", "raised"}
    /\ refreshCount = 1
    /\ refreshRet = "false"
    /\ sendCount = 1

\* C11: a failed nonce refresh (no session token, transport error, error
\* status, unsuccessful or incomplete response) is a failure value of the
\* refresh step: _refresh_nonce returns True or False, and no exception of
\* the refresh ends the request.
C11_RefreshFailureIsAValue ==
    /\ refreshRet \in {"none", "true", "false"}
    /\ apiResult \notin Exceptions

C13_BareElementInstalled ==
    (last.name # "" /\ ~last.stored /\ last.ret \notin Exceptions) => last.ran

CommandGenerated == fnCall.fn = "get_package_install_command" /\ fnResult.done

\* C15: the install command is an argument vector fixed by the package
\* manager and the package name: sudo apt install -y curl for apt and curl,
\* brew install wget (no sudo) for brew and wget; for every manager of the
\* table the vector is the manager's arguments followed by the package name
\* as one last argument, whatever characters the name holds.
C15_InstallCommandVector ==
    CommandGenerated
        => LET cmd == fnResult.value
           IN /\ (fnCall.pm = "apt" /\ fnCall.name = <<"curl">>)
                   => cmd = <<<<"sudo">>, <<"apt">>, <<"install">>, <<"-y">>, <<"curl">>>>
              /\ (fnCall.pm = "brew" /\ fnCall.name = <<"wget">>)
                   => cmd = <<<<"brew">>, <<"install">>, <<"wget">>>>
              /\ fnCall.pm \in PackageManagers
                   => /\ Len(cmd) = Len(CommandPrefix(fnCall.pm)) + 1
                      /\ cmd[Len(cmd)] = fnCall.name
                      /\ SubSeq(cmd, 1, Len(cmd) - 1) = CommandPrefix(fnCall.pm)
              /\ fnCall.pm \notin PackageManagers => cmd = <<>>

\* C15 witness: the command for a name with a blank in it was generated for
\* brew, and the name is its third and last argument.
C15_Witness ==
    /\ CommandGenerated
    /\ fnCall.pm = "brew"
    /\ fnCall.name = <<"my", " ", "pkg">>
    /\ Len(fnResult.value) = 3

\* The request has dealt with a response whose status is in 400..599.
ErrorResponseHandled ==
    fnCall.fn = "request" /\ fnResult.done /\ IsErrorStatus(fnCall.status)

\* C16: for every response whose status is in 400..599 the request raises
\* APIError with status_code equal to the status and, when the JSON body has
\* a `message` field, that field as its message; no data is returned and the
\* stored nonce is as it was before the response.
C16_ErrorStatusRaisesAPIError ==
    ErrorResponseHandled
        => LET r == fnResult.value.result
           IN /\ r.raised = "APIError"
              /\ r.status_code = <<fnCall.status>>
              /\ (fnCall.body.json = "object" /\ fnCall.body.message # Absent)
                   => r.message = <<fnCall.body.message>>
              /\ r.data = <<>>
              /\ auth = fnResult.value.authBefore

\* A saved configuration has been loaded again.
SavedAndLoaded == fnCall.fn = "save_then_load" /\ fnResult.done

\* C17: saving a configuration and loading it yields a configuration with the
\* same values of the persisted fields: API endpoint, system identity, auth
\* credentials, verbosity and the element store.
C17_SaveLoadRoundTrip ==
    SavedAndLoaded
        => /\ fnResult.value.raised = "none"
           /\ fnResult.value.config = fnCall.config

C19_RemoteResolvedIsStored ==
    [][(InstallCalled /\ IndexOfName(store, names[idx + 1]) = 0
          /\ last'.remote /\ last'.ret = "true")
         => StatusOf(store', names[idx + 1]) = "installed"]_vars

\* One listing has been stored.
ListingStored == fnCall.fn = "_store_elements" /\ fnResult.done

\* C20: in the local store no two records have the same id and no two
\* records have the same name, also after a refresh whose listing has one
\* name under two ids or in both of its lists.
C20_OneRecordPerName ==
    ListingStored
        => LET st == fnResult.value
           IN \A i, j \in 1..Len(st) :
                i # j => (st[i].id # st[j].id /\ st[i].name # st[j].name)

\* The listing of the call holds an entry of that id.
Listed(id) ==
    \E k \in 1..Len(fnCall.elements \o fnCall.dependencies) :
        (fnCall.elements \o fnCall.dependencies)[k].id = id

\* C21: after a refresh, a record whose id was stored before keeps its
\* status and, when listed, has the remote description; a record whose id
\* was not stored is "new" when the id came in the element list and
\* "to-install" when it came in the dependency list only.
C21_RefreshInsertsAndUpdates ==
    ListingStored
        => LET st == fnResult.value
               before == fnCall.store
           IN \A i \in 1..Len(st) :
                IF IndexOfId(before, st[i].id) # 0
                THEN /\ st[i].status = before[IndexOfId(before, st[i].id)].status
                     /\ Listed(st[i].id) => st[i].description = "d1"
                ELSE st[i].status =
                       (IF \E k \in 1..Len(fnCall.elements) :
                              fnCall.elements[k].id = st[i].id
                        THEN "new" ELSE "to-install")

\* The names to install have been selected from a store.
NamesSelected == fnCall.fn = "get_elements_for_install" /\ fnResult.done

\* C22: the selection is exactly the names of the stored records whose
\* status is new or to-install, each once and in the insertion order of the
\* store: no name of an installed record is in it, no pending record is left
\* out.
C22_SelectsExactlyThePending ==
    NamesSelected
        => LET st == fnCall.store
               sel == fnResult.value
           IN /\ \A i \in 1..Len(st) :
                   /\ IsPending(st[i]) => \E k \in 1..Len(sel) : sel[k] = st[i].name
                   /\ st[i].status = "installed"
                        => \A k \in 1..Len(sel) : sel[k] # st[i].name
              /\ \A k \in 1..Len(sel) :
                   \E i \in 1..Len(st) : st[i].name = sel[k] /\ IsPending(st[i])
              /\ \A k, l \in 1..Len(sel) :
                   k < l => IndexOfName(st, sel[k]) < IndexOfName(st, sel[l])

\* This step is one call of selectForInstall with noUpdate = true.
SelectedWithoutUpdate == pc = "idle" /\ selResult'.ret # "none" /\ selResult'.noUpdate

\* C23: selectForInstall with noUpdate = true makes no remote request (so
\* the session state is as before) and leaves the store, in memory and on
\* disk, as it was.
C23_NoUpdateMakesNoRequest ==
    [][SelectedWithoutUpdate
         => /\ selResult'.call = "none"
            /\ auth' = auth
            /\ store' = disk
            /\ disk' = disk]_vars

\* C23 witness: a selection with noUpdate = true returned pending names of a
\* store that an earlier refresh filled, and the install loop is about to
\* start.
C23_Witness ==
    /\ selResult.noUpdate
    /\ selResult.ret = "ok"
    /\ selResult.call = "none"
    /\ pc = "loop"
    /\ idx = 0
    /\ Len(names) >= 2
    /\ store = disk

\* C24: no step of a refresh, a selection or an install removes a record:
\* every record keeps its place and its id, in memory and on disk, also when
\* the listing received no longer holds it.  (The uninstall of the commands
\* removes none either.)
C24_NoRecordRemoved ==
    [][/\ \A i \in 1..Len(disk) : i <= Len(disk') /\ disk'[i].id = disk[i].id
       /\ \A i \in 1..Len(store) : i <= Len(store') /\ store'[i].id = store[i].id]_vars

\* C24 witness: a refresh has just received a listing without the second
\* and third record of the store (the second is still installed, which a
\* listing holding it would have undone), and all three records are there.
C24_Witness ==
    /\ selResult.ret = "ok"
    /\ selResult.call = "data"
    /\ ~selResult.fromEmpty
    /\ idx = 0
    /\ Len(store) = 3
    /\ StatusOf(store, NameB) = "installed"
    /\ IndexOfName(store, NameC) # 0

\* The package installer has returned.
PackageInstallerRan == fnCall.fn = "package._perform_install" /\ fnResult.done

\* The commands the install resolves to: the custom commands of the
\* element, or the one command generated for the package manager.
ResolvedCommands ==
    IF fnCall.custom # <<>>
    THEN [i \in 1..Len(fnCall.custom) |-> ListCommand(fnCall.custom[i])]
    ELSE <<ListCommand(GetPackageInstallCommand(fnCall.detected, fnCall.name))>>

\* The installer had commands to run.
HasResolvedCommands ==
    \/ fnCall.custom # <<>>
    \/ /\ EffectivePackageManager(fnCall.preferred, fnCall.detected) # "none"
       /\ GetPackageInstallCommand(fnCall.detected, fnCall.name) # <<>>

\* C25: the package installer runs the resolved commands in order and stops
\* at the first one that exits non-zero: what it ran is the resolved
\* commands up to and including the failing one, the failure names that
\* command, and the result is success exactly when all of them ran and none
\* failed.
C25_StopsAtFirstFailure ==
    (PackageInstallerRan /\ HasResolvedCommands)
        => LET r == fnResult.value
               n == Len(ResolvedCommands)
           IN /\ Len(r.ran) <= n
              /\ \A i \in 1..Len(r.ran) : r.ran[i] = ResolvedCommands[i]
              /\ fnCall.failAt \in 1..n
                   => /\ Len(r.ran) = fnCall.failAt
                      /\ r.ret = "false"
                      /\ r.msg = "failedcommand"
                      /\ r.failed = <<ResolvedCommands[fnCall.failAt]>>
              /\ fnCall.failAt \notin 1..n
                   => r.ret = "true" /\ Len(r.ran) = n

\* C26: for a package without custom commands on a system with a detected
\* package manager, the installer makes exactly one invocation, and what it
\* invokes is the whole generated argument list for the package.
C26_OneGeneratedCommand ==
    (PackageInstallerRan /\ fnCall.custom = <<>> /\ fnCall.preferred = "none"
       /\ fnCall.detected \in PackageManagers)
        => fnResult.value.ran
             = <<ListCommand(GetPackageInstallCommand(fnCall.detected, fnCall.name))>>

\* This step is an install call of a package on a machine without a
\* package manager that reached the installer.
InstallWithoutManager ==
    /\ InstallCalled
    /\ sys.etype = "package"
    /\ sys.pm = "none"
    /\ last'.ran
    /\ ~sys.skipInstall

AliasInstallerReached ==
    /\ fnCall.fn = "install"
    /\ fnResult.done
    /\ ~fnCall.sys.skipInstall

C29_IoFailureIsAResult ==
    [][(InstallCalled /\ sys.etype = "alias" /\ last'.ran)
         => /\ last'.ret \in {"true", "false"}
            /\ pc' = "loop"
            /\ idx' = idx + 1]_vars

\* C30: an install call only appends to the shell config file: the content
\* before the call is an unchanged prefix of the content after it, and the
\* content changes only when no line of the file before the call contains
\* `alias <name>` for the name being installed.
C30_AppendOnly ==
    [][InstallCalled
         => /\ Len(shellFile') >= Len(shellFile)
            /\ SubSeq(shellFile', 1, Len(shellFile)) = shellFile
            /\ shellFile' # shellFile
                 => /\ ~FileContains(shellFile, names[idx + 1])
                    /\ last'.wrote]_vars

\* C30 witness: an alias install wrote its lines behind the lines another
\* alias already had in the file.
C30_Witness ==
    /\ last.ran
    /\ last.wrote
    /\ Len(shellFile) >= 4
    /\ \E n \in Names \ {last.name} : FileContains(shellFile, n)

\* An alias install has reloaded the terminal inline and the reload failed
\* or ran no command.
ReloadFailed == last.ran /\ last.reload \in {"false", "noop"}

\* C31: when the reload triggered by an alias install fails, or runs no
\* command (unknown shell), the install still reports success and the
\* element is recorded as installed in the store and in its persisted copy.
C31_FailedReloadIsNotFatal ==
    ReloadFailed
        => /\ last.ret = "true"
           /\ StatusOf(store, last.name) = "installed"
           /\ StatusOf(disk, last.name) = "installed"

\* A batch of install calls has ended, the reload after the loop included.
BatchInstallEnded == fnCall.fn = "batch_install" /\ fnResult.done

\* C32: during one invocation the system profile is detected at most once:
\* the installers, the inline reload and the reload at the end of a batch
\* all use the instance cached by the configuration.
C32_ProfileDetectedOnce ==
    BatchInstallEnded => fnResult.value.detections <= 1

\* C33: an install call that does not report success (the installer returned
\* failure, the element was not found, or the call ended with an exception)
\* leaves the local store and its persisted copy exactly as they were.
C33_FailedInstallChangesNothing ==
    [][(InstallCalled /\ last'.ret # "true")
         => /\ store' = store
            /\ disk' = disk]_vars

\* C33 witness: the installer failed for a pending element of a store that
\* holds other records too, and the store is as it is on disk.
C33_Witness ==
    /\ last.ran
    /\ last.ret = "false"
    /\ last.stored
    /\ last.pre \in {"new", "to-install"}
    /\ StatusOf(store, last.name) = last.pre
    /\ Len(store) >= 2
    /\ disk = store

\* C34: a request to a logged-in endpoint is never sent with a nonce the
\* client knows to be expired; in particular, after a refresh that did not
\* succeed the request does not carry the stale user_id and nonce.
C34_NoStaleNonceSent ==
    (apiPrivacy = "logged_in" /\ sendCount > 0) => sentNonce # "stale"

\* C35: an install command given names registers them first (add_in_system).
\* When the registration does not succeed the command ends, with exit code 1
\* if it was refused, before any install call is made, and the local store,
\* its persisted copy and the shell config file are as they were; an install
\* call of a command given names is only made after a registration that
\* succeeded.
C35_RegistrationComesFirst ==
    [][/\ added' \notin {"none", "true"}
            => /\ pc' \in {"exit1", "crashed"}
               /\ added' = "false" => (pc' = "exit1" /\ exitCode' = 1)
               /\ idx' = 0
               /\ last' = NoCall
               /\ store' = disk
               /\ disk' = disk
               /\ shellFile' = shellFile
       /\ (InstallCalled /\ selResult.ret = "none") => added = "true"]_vars

\* C35 witness: the registration was refused while the store held records,
\* and the command has exited with 1 without an install call.
C35_Witness ==
    /\ added = "false"
    /\ pc = "exit1"
    /\ exitCode = 1
    /\ last = NoCall
    /\ Len(disk) >= 2
    /\ store = disk

\* A call of uninstall has ended.
UninstallEnded == fnCall.fn = "uninstall" /\ fnResult.done

\* The records of a store that have that name, in order.
RecordsNamed(st, name) == SelectSeq(st, LAMBDA r : r.name = name)

\* The DELETE of the i-th name was made and the service reported success.
DeleteSucceeded(i) ==
    /\ fnCall.confirmed
    /\ fnCall.answers[i] = "success"
    /\ \A j \in 1..(i - 1) : fnCall.answers[j] # "RequestError"

\* C36: after uninstall, no record of the store has a name whose remote
\* delete reported success; the records of a name whose delete failed, raised
\* an API error or was never made (declined confirmation) are as before.
C36_UninstallRemovesAfterDelete ==
    UninstallEnded
        => \A i \in 1..Len(fnCall.names) :
             LET n == fnCall.names[i]
             IN IF DeleteSucceeded(i)
                THEN RecordsNamed(fnResult.value.store, n) = <<>>
                ELSE RecordsNamed(fnResult.value.store, n) = RecordsNamed(fnCall.store, n)

\* The arguments of the invocations made, in the order they were made.
RECURSIVE WordsRun(_)
WordsRun(ran) == IF ran = <<>> THEN <<>> ELSE Head(ran).words \o WordsRun(Tail(ran))

\* C37: for a package without custom commands, the manager that is checked
\* for and the manager of the command that is run are the same effective
\* package manager (the preferred one when set, else the detected one):
\* without an effective manager nothing is run, for an effective manager the
\* table does not know nothing is run and the install reports it as
\* unsupported, and otherwise what is run is the command of the table for
\* the effective manager.
C37_EffectiveManagerIsUsed ==
    (PackageInstallerRan /\ fnCall.custom = <<>>)
        => LET r   == fnResult.value
               eff == EffectivePackageManager(fnCall.preferred, fnCall.detected)
               cmd == GetPackageInstallCommand(eff, fnCall.name)
               w   == WordsRun(r.ran)
           IN /\ eff = "none" => (r.msg = "nomanager" /\ w = <<>>)
              /\ (eff # "none" /\ cmd = <<>>) => (r.msg = "unsupported" /\ w = <<>>)
              /\ cmd # <<>> => /\ w # <<>>
                               /\ Len(w) <= Len(cmd)
                               /\ w = SubSeq(cmd, 1, Len(w))

\* The last install call ran the alias installer, with the skip-install flag
\* unset, and reported success.
AliasInstallSucceeded ==
    /\ sys.etype = "alias"
    /\ ~sys.skipInstall
    /\ last.ran
    /\ last.ret = "true"

\* C38: when the alias installer has reported success for a name, with the
\* skip-install flag unset, the shell config file has a line that defines
\* that very alias, whatever aliases the file held before, those of longer
\* names that begin with the name included.
C38_SuccessMeansDefined ==
    AliasInstallSucceeded => HasAliasLine(shellFile, last.name)

====
